---- MODULE Spec2Model ----
(***************************************************************************)
(* EarningsRadar: the multi-source scraping and normalisation pipeline.    *)
(*   src/earnings_scraper.py  EarningsScraper  (earnings aggregator)       *)
(*   src/news_scraper.py      NewsScraper      (news aggregator)           *)
(*                                                                         *)
(* Calendar dates are proleptic Gregorian ordinals (date.toordinal()),     *)
(* timestamps are minutes (ordinal * 1440 + minute of the day).  A scraped *)
(* page is the sequence of rows/items BeautifulSoup hands to the adapter;  *)
(* a date text is the tuple of the fields strptime would read from it.     *)
(***************************************************************************)
EXTENDS Integers, Sequences, FiniteSets, TLC

VARIABLES
    call,           \* the entry point this run exercises
    days_ahead,     \* get_earnings_calendar(days_ahead)
    e_pc,           \* "loop" while iterating over sources, then "done"
    e_next,         \* index in sources of the adapter to be invoked next
    all_earnings,   \* the list all_earnings
    e_batches,      \* what each invoked adapter returned, in call order
    e_events,       \* adapter invocations and time.sleep(1) pauses, in order
    e_status,       \* "running", "returned", "raised"
    e_table,        \* the returned DataFrame, as a sequence of rows
    tickers,        \* get_news_for_tickers(tickers, days_back)
    days_back,
    n_pc,           \* "loop" while iterating, then "done"
    n_tick,         \* index of the ticker being processed
    n_src,          \* index in news sources of the adapter to be invoked next
    articles,       \* the list articles of the running _get_ticker_news
    all_articles,   \* the list all_articles
    n_batches,      \* what each invoked news adapter returned, in call order
    n_events,       \* adapter invocations and time.sleep(1) pauses, in order
    n_status,       \* "running", "returned", "raised"
    n_table,        \* the returned DataFrame, as a sequence of rows
    n_parse_log,    \* the _parse_article calls made so far, in order
    a_page,         \* single-adapter run: the page handed to the adapter
    a_out,          \* single-adapter run: the list the adapter returned
    a_done,         \* single-adapter run: the adapter has returned
    a_log,          \* single-adapter run: the _parse_article calls made
    p_text,         \* date-parser run: the text handed to the parser
    p_out,          \* date-parser run: what the parser returned
    p_done,         \* date-parser run: the parser has returned
    clock,          \* cached loaders: the time in seconds
    cache,          \* cached loaders: the entries st.cache_data holds
    loads,          \* cached loaders: the calls made, in order
    u_in,           \* utils run: the arguments of the function
    u_out,          \* utils run: what the function returned
    u_done          \* utils run: the function has returned

evars == <<days_ahead, e_pc, e_next, all_earnings, e_batches, e_events,
           e_status, e_table>>
nvars == <<tickers, days_back, n_pc, n_tick, n_src, articles, all_articles,
           n_batches, n_events, n_status, n_table, n_parse_log>>
avars == <<a_page, a_out, a_done, a_log>>
pvars == <<p_text, p_out, p_done>>
cvars == <<clock, cache, loads>>
uvars == <<u_in, u_out, u_done>>
vars == <<call, evars, nvars, avars, pvars, cvars, uvars>>

(***************************************************************************)
(* Bounds of the model.                                                    *)
(***************************************************************************)
MaxRows == 3        \* rows of the Finviz calendar table
MaxOtherRows == 1   \* data rows of the other earnings pages
MaxItems == 4       \* items of a Google News feed
MaxTickers == 2     \* length of the ticker list

(***************************************************************************)
(* datetime.date arithmetic.                                               *)
(***************************************************************************)
IsLeap(y) == (y % 4 = 0) /\ ((y % 100 # 0) \/ (y % 400 = 0))

DaysInMonth(y, m) ==
    IF m = 2 THEN (IF IsLeap(y) THEN 29 ELSE 28)
    ELSE IF m \in {4, 6, 9, 11} THEN 30 ELSE 31

RECURSIVE DaysBeforeMonth(_, _)
DaysBeforeMonth(y, m) ==
    IF m = 1 THEN 0 ELSE DaysBeforeMonth(y, m - 1) + DaysInMonth(y, m - 1)

DaysBeforeYear(y) ==
    (y - 1) * 365 + ((y - 1) \div 4) - ((y - 1) \div 100) + ((y - 1) \div 400)

ValidYmd(y, m, d) == m \in 1..12 /\ d >= 1 /\ d <= DaysInMonth(y, m)

\* date(y, m, d).toordinal()
Ymd(y, m, d) == DaysBeforeYear(y) + DaysBeforeMonth(y, m) + d

\* the clock: datetime.now() is 2024-02-05 10:00 during the whole call
CurrentYear == 2024
Today == Ymd(CurrentYear, 2, 5)
MinutesPerDay == 1440
Now == Today * MinutesPerDay + 600

\* (a - b).days for two naive timestamps in minutes: timedelta normalises
\* with a floor, also for negative differences
TimedeltaDays(a, b) == (a - b) \div MinutesPerDay

(***************************************************************************)
(* Date texts.  A text is described by what the parsers read from it:      *)
(*   fmt    the strptime format the text has the shape of, "none" when it  *)
(*          has the shape of no format of any parser;                      *)
(*   y,m,d  the numbers written in it (y = 0 when it carries no year);     *)
(*   hm     the minute of the day written in it (0 when it has no time);   *)
(*   off    the UTC offset in minutes written in it (%z);                  *)
(*   words  which of the words the parsers search for occur in it;         *)
(*   num    <<n>> when n is the first run of digits in it, else <<>>;      *)
(*   empty  the text is the empty string.                                  *)
(* Ordinal suffixes are removed by the re.sub of _parse_finviz_date before *)
(* the formats are tried, so d is the day with or without its suffix.      *)
(***************************************************************************)
DateText(fmt, y, m, d, hm, off, words, num) ==
    [fmt |-> fmt, y |-> y, m |-> m, d |-> d, hm |-> hm, off |-> off,
     words |-> words, num |-> num, empty |-> FALSE]

NoText == DateText("none", 0, 0, 0, 0, 0, {}, <<>>)

EmptyText == [NoText EXCEPT !.empty = TRUE]

finviz_formats == <<"%A, %B %d", "%B %d", "%m/%d/%Y", "%Y-%m-%d">>

\* datetime.strptime(date_str, fmt): the year it yields (1900 when the
\* format has no %Y), and whether it succeeds
StrptimeYear(text, fmt) == IF fmt \in {"%A, %B %d", "%B %d"} THEN 1900 ELSE text.y

StrptimeOk(text, fmt) ==
    text.fmt = fmt /\ ValidYmd(StrptimeYear(text, fmt), text.m, text.d)

RECURSIVE parse_finviz_from(_, _)
parse_finviz_from(text, i) ==
    IF i > Len(finviz_formats) THEN Today      \* fallback to today
    ELSE IF StrptimeOk(text, finviz_formats[i])
         THEN LET y == StrptimeYear(text, finviz_formats[i])
              IN  Ymd(IF y = 1900 THEN CurrentYear ELSE y, text.m, text.d)
         ELSE parse_finviz_from(text, i + 1)

parse_finviz_date(text) == parse_finviz_from(text, 1)

(***************************************************************************)
(* Earnings adapters.  A page is [status, rows]: status "error" when the   *)
(* request raises, "no_table" when the expected table is not found, "ok"   *)
(* otherwise; rows are the <tr> of the table(s) in document order.         *)
(***************************************************************************)
EarningsRecord(ticker, company, date, time, source) ==
    [ticker |-> ticker, company |-> company, date |-> date, time |-> time,
     source |-> source]

\* the date test of the Finviz adapter
FinvizDateOk(current_date, ahead) == (current_date - Today) <= ahead

\* the date of the first header stays the current date
RECURSIVE finviz_loop_keeps_first_date(_, _, _, _, _)
finviz_loop_keeps_first_date(rows, have_date, current_date, ahead, earnings) ==
    IF rows = <<>> THEN earnings
    ELSE LET row == Head(rows) IN
         IF row.ncells = 1 /\ row.colspan
         THEN finviz_loop_keeps_first_date(Tail(rows), TRUE,
                  IF have_date THEN current_date ELSE parse_finviz_date(row.text),
                  ahead, earnings)
         ELSE IF row.ncells >= 3 /\ have_date /\ row.link /\ row.ticker # ""
                 /\ FinvizDateOk(current_date, ahead)
         THEN finviz_loop_keeps_first_date(Tail(rows), have_date, current_date, ahead,
                  Append(earnings,
                         EarningsRecord(row.ticker, row.company,
                                        current_date, row.time, "Finviz")))
         ELSE finviz_loop_keeps_first_date(Tail(rows), have_date, current_date, ahead,
                                           earnings)

RECURSIVE finviz_loop(_, _, _, _, _)
finviz_loop(rows, have_date, current_date, ahead, earnings) ==
    IF rows = <<>> THEN earnings
    ELSE LET row == Head(rows) IN
         IF row.ncells = 1 /\ row.colspan
         THEN finviz_loop(Tail(rows), TRUE, parse_finviz_date(row.text), ahead,
                          earnings)
         ELSE IF row.ncells >= 3 /\ have_date /\ row.link /\ row.ticker # ""
                 /\ FinvizDateOk(current_date, ahead)
         THEN finviz_loop(Tail(rows), have_date, current_date, ahead,
                          Append(earnings,
                                 EarningsRecord(row.ticker, row.company,
                                                current_date, row.time, "Finviz")))
         ELSE finviz_loop(Tail(rows), have_date, current_date, ahead, earnings)

scrape_finviz_earnings(page, ahead) ==
    IF page.status = "ok" THEN finviz_loop(page.rows, FALSE, Today, ahead, <<>>)
    ELSE <<>>

\* rows[1:]
SkipHeader(rows) == SubSeq(rows, 2, Len(rows))

\* the date test of the Yahoo Finance adapter (earnings_date is today)
YahooDateOk(ahead) == (Today - Today) <= ahead

RECURSIVE yahoo_loop(_, _, _)
yahoo_loop(rows, ahead, earnings) ==
    IF rows = <<>> THEN earnings
    ELSE LET row == Head(rows) IN
         IF row.ncells >= 4 /\ row.link /\ row.ticker # "" /\ YahooDateOk(ahead)
         THEN yahoo_loop(Tail(rows), ahead,
                         Append(earnings,
                                EarningsRecord(row.ticker, row.company, Today,
                                               IF row.ncells > 2 THEN row.time
                                               ELSE "N/A",
                                               "Yahoo Finance")))
         ELSE yahoo_loop(Tail(rows), ahead, earnings)

scrape_yahoo_finance_api(page, ahead) ==
    IF page.status = "ok" THEN yahoo_loop(SkipHeader(page.rows), ahead, <<>>)
    ELSE <<>>

\* the ticker the Investing.com adapter extracts from a row
InvestingTicker(row) ==
    IF row.title_ticker # "" THEN row.title_ticker
    ELSE IF row.cell0 # "" /\ row.cell0_len <= 5 THEN row.cell0
    ELSE ""

RECURSIVE investing_loop(_, _)
investing_loop(rows, earnings) ==
    IF rows = <<>> THEN earnings
    ELSE LET row == Head(rows) IN
         IF row.ncells >= 4 /\ row.link /\ InvestingTicker(row) # ""
            /\ row.company # ""
         THEN investing_loop(Tail(rows),
                             Append(earnings,
                                    EarningsRecord(InvestingTicker(row),
                                                   row.company, Today,
                                                   IF row.ncells > 2 THEN row.time
                                                   ELSE "N/A",
                                                   "Investing.com")))
         ELSE investing_loop(Tail(rows), earnings)

scrape_investing_earnings(page, ahead) ==
    IF page.status = "ok" THEN investing_loop(SkipHeader(page.rows), <<>>)
    ELSE <<>>

RECURSIVE marketwatch_loop(_, _)
marketwatch_loop(rows, earnings) ==
    IF rows = <<>> THEN earnings
    ELSE LET row    == Head(rows)
             ticker == IF row.link THEN row.link_text ELSE row.cell0
         IN
         IF row.ncells >= 3 /\ ticker # "" /\ row.company # ""
         THEN marketwatch_loop(Tail(rows),
                               Append(earnings,
                                      EarningsRecord(ticker, row.company, Today,
                                                     IF row.ncells > 2 THEN row.time
                                                     ELSE "N/A",
                                                     "MarketWatch")))
         ELSE marketwatch_loop(Tail(rows), earnings)

scrape_marketwatch_earnings(page, ahead) ==
    IF page.status = "ok" THEN marketwatch_loop(SkipHeader(page.rows), <<>>)
    ELSE <<>>

\* the list without its last adapter
sources_without_marketwatch ==
    <<"_scrape_finviz_earnings", "_scrape_investing_earnings",
      "_scrape_yahoo_finance_api">>

\* the list sources of get_earnings_calendar
sources == <<"_scrape_finviz_earnings", "_scrape_investing_earnings",
             "_scrape_yahoo_finance_api", "_scrape_marketwatch_earnings">>

\* source_func(days_ahead) on the page the site serves
source_func(name, page, ahead) ==
    CASE name = "_scrape_finviz_earnings"      -> scrape_finviz_earnings(page, ahead)
      [] name = "_scrape_investing_earnings"   -> scrape_investing_earnings(page, ahead)
      [] name = "_scrape_yahoo_finance_api"    -> scrape_yahoo_finance_api(page, ahead)
      [] name = "_scrape_marketwatch_earnings" -> scrape_marketwatch_earnings(page, ahead)

(***************************************************************************)
(* pandas: DataFrame.drop_duplicates(keep='first'), pd.to_datetime and     *)
(* DataFrame.sort_values as the aggregators use them.  keys[i] is the      *)
(* value of the subset columns in row i.                                   *)
(***************************************************************************)
RECURSIVE drop_duplicates_from(_, _, _, _)
drop_duplicates_from(rows, keys, i, kept) ==
    IF i > Len(rows) THEN kept
    ELSE IF \E j \in 1..(i - 1) : keys[j] = keys[i]
         THEN drop_duplicates_from(rows, keys, i + 1, kept)
         ELSE drop_duplicates_from(rows, keys, i + 1, Append(kept, rows[i]))

\* keep='last' in place of keep='first'
drop_duplicates_keep_last(rows, keys) ==
    LET kept == {i \in 1..Len(rows) : \A j \in (i + 1)..Len(rows) : keys[j] # keys[i]}
        pick[i \in 0..Len(rows)] ==
            IF i = 0 THEN <<>>
            ELSE IF i \in kept THEN Append(pick[i - 1], rows[i]) ELSE pick[i - 1]
    IN  pick[Len(rows)]

drop_duplicates(rows, keys) == drop_duplicates_from(rows, keys, 1, <<>>)

\* the ascending flag is not honoured
InsertPos_always_ascending(keys, order, k, ascending) ==
    Cardinality({j \in 1..Len(order) : keys[order[j]] <= k})

\* the position at which a row of key k enters the already sorted rows
\* order (rows of equal key keep their relative order)
InsertPos(keys, order, k, ascending) ==
    Cardinality({j \in 1..Len(order) :
                    IF ascending THEN keys[order[j]] <= k ELSE keys[order[j]] >= k})

InsertAt(order, pos, i) ==
    SubSeq(order, 1, pos) \o <<i>> \o SubSeq(order, pos + 1, Len(order))

RECURSIVE argsort_from(_, _, _, _)
argsort_from(keys, i, ascending, order) ==
    IF i > Len(keys) THEN order
    ELSE argsort_from(keys, i + 1, ascending,
                      InsertAt(order, InsertPos(keys, order, keys[i], ascending), i))

\* the sorted frame is not assigned back
sort_values_discarded(rows, keys, ascending) == rows

\* df.sort_values('date', ascending=...).reset_index(drop=True); keys[i] is
\* the date of row i on the time line.  Rows of equal date are left in
\* their relative order, as the insertion sort that numpy applies to short
\* arrays leaves them; no property below depends on the order of ties.
sort_values(rows, keys, ascending) ==
    LET order == argsort_from(keys, 1, ascending, <<>>)
    IN  [i \in 1..Len(rows) |-> rows[order[i]]]

\* pd.to_datetime of a datetime.date: the timestamp of its midnight
DateToDatetime(d) == d * MinutesPerDay

earnings_to_datetime(rows) ==
    [i \in 1..Len(rows) |-> [rows[i] EXCEPT !.date = DateToDatetime(rows[i].date)]]

EarningsKeys(rows) == [i \in 1..Len(rows) |-> <<rows[i].ticker, rows[i].date>>]

\* get_earnings_calendar after its loop, when all_earnings is not empty
EarningsDates(rows) == [i \in 1..Len(rows) |-> rows[i].date]

EarningsFrame(all) ==
    LET df == earnings_to_datetime(drop_duplicates(all, EarningsKeys(all)))
    IN  sort_values(df, EarningsDates(df), TRUE)

(***************************************************************************)
(* The pages the earnings sites may serve.                                 *)
(***************************************************************************)
RECURSIVE SeqsUpTo(_, _)
SeqsUpTo(S, n) ==
    IF n = 0 THEN {<<>>}
    ELSE LET shorter == SeqsUpTo(S, n - 1)
         IN  shorter \cup {Append(q, x) : q \in shorter, x \in S}

FinvizTexts ==
    { DateText("%A, %B %d", 0,    2, 5,  0, 0, {"day"}, <<5>>),   \* Monday, February 5th
      DateText("%B %d",     0,    2, 6,  0, 0, {}, <<6>>),        \* February 6th
      DateText("%m/%d/%Y",  2024, 2, 4,  0, 0, {}, <<2>>),        \* 02/04/2024
      DateText("%Y-%m-%d",  2024, 3, 16, 0, 0, {}, <<2024>>),     \* 2024-03-16
      NoText }                                                    \* TBA

FinvizRow(ncells, colspan, text, link, ticker, company, time) ==
    [ncells |-> ncells, colspan |-> colspan, text |-> text, link |-> link,
     ticker |-> ticker, company |-> company, time |-> time]

FinvizRows ==
    { FinvizRow(1, TRUE, t, FALSE, "", "", "") : t \in FinvizTexts }
    \cup { FinvizRow(3, FALSE, NoText, TRUE, "AAPL", "Apple", "Pre-market"),
           FinvizRow(3, FALSE, NoText, TRUE, "MSFT", "Microsoft", "After-hours"),
           FinvizRow(3, FALSE, NoText, FALSE, "", "Apple", "Pre-market"),
           FinvizRow(2, FALSE, NoText, TRUE, "AAPL", "", "") }

ErrorPage == [status |-> "error", rows |-> <<>>]
NoTablePage == [status |-> "no_table", rows |-> <<>>]
OkPage(rows) == [status |-> "ok", rows |-> rows]

FinvizPages ==
    {ErrorPage, NoTablePage} \cup {OkPage(rows) : rows \in SeqsUpTo(FinvizRows, MaxRows)}

InvestingRow(ncells, link, company, title_ticker, cell0, cell0_len, time) ==
    [ncells |-> ncells, link |-> link, company |-> company,
     title_ticker |-> title_ticker, cell0 |-> cell0, cell0_len |-> cell0_len,
     time |-> time]

InvestingRows ==
    { InvestingRow(4, TRUE, "Apple Inc", "AAPL", "", 0, "After-hours"),
      InvestingRow(4, TRUE, "Microsoft Corp", "", "MSFT", 4, "Pre-market"),
      InvestingRow(4, TRUE, "Alphabet", "", "Wednesday", 9, "") }

YahooRow(ncells, link, ticker, company, time) ==
    [ncells |-> ncells, link |-> link, ticker |-> ticker, company |-> company,
     time |-> time]

YahooRows ==
    { YahooRow(4, TRUE, "AAPL", "Apple", ""),
      YahooRow(5, TRUE, "GOOG", "Alphabet", "After-hours"),
      YahooRow(4, FALSE, "", "Microsoft", "Pre-market") }

MarketWatchRow(ncells, link, link_text, cell0, company, time) ==
    [ncells |-> ncells, link |-> link, link_text |-> link_text, cell0 |-> cell0,
     company |-> company, time |-> time]

MarketWatchRows ==
    { MarketWatchRow(3, TRUE, "AAPL", "AAPL", "Apple", "Pre-market"),
      MarketWatchRow(3, FALSE, "", "GOOG", "Alphabet Inc", "After-hours"),
      MarketWatchRow(3, TRUE, "MSFT", "MSFT", "", ""),
      MarketWatchRow(3, TRUE, "aapl", "aapl", "Apple Inc", "Pre-market") }

\* a page with a table: its header row, then up to MaxOtherRows data rows
TablePages(rowset) ==
    {ErrorPage, NoTablePage}
    \cup {OkPage(<<h>> \o rows) : h \in rowset, rows \in SeqsUpTo(rowset, MaxOtherRows)}

EarningsPages(name) ==
    CASE name = "_scrape_finviz_earnings"      -> FinvizPages
      [] name = "_scrape_investing_earnings"   -> TablePages(InvestingRows)
      [] name = "_scrape_yahoo_finance_api"    -> TablePages(YahooRows)
      [] name = "_scrape_marketwatch_earnings" -> TablePages(MarketWatchRows)

DaysAheadValues == {-1, 0, 1, 30}

(***************************************************************************)
(* NewsScraper._parse_news_date.  A news date is [t, aware]: t the minutes *)
(* of the instant (UTC for an aware datetime, wall clock for a naive one). *)
(***************************************************************************)
news_formats ==
    <<"%Y-%m-%d %H:%M:%S", "%Y-%m-%d", "%m/%d/%Y %H:%M:%S", "%m/%d/%Y",
      "%b %d, %Y %H:%M:%S", "%B %d, %Y %H:%M:%S", "%b %d, %Y", "%B %d, %Y",
      "%a, %d %b %Y %H:%M:%S %Z", "%a, %d %b %Y %H:%M:%S %z">>

Naive(t) == [t |-> t, aware |-> FALSE]
Aware(t) == [t |-> t, aware |-> TRUE]

NewsStrptimeOk(text, fmt) == text.fmt = fmt /\ ValidYmd(text.y, text.m, text.d)

\* datetime.strptime(date_str, fmt): %Z yields a naive datetime, %z an aware one
NewsStrptime(text, fmt) ==
    LET wall == Ymd(text.y, text.m, text.d) * MinutesPerDay + text.hm
    IN  IF fmt = "%a, %d %b %Y %H:%M:%S %z" THEN Aware(wall - text.off)
        ELSE Naive(wall)

\* int(re.search(r'(\d+)', date_str).group(1)) raises when there is no digit;
\* the except clause then leads to the final return
NewsRelative(text, unit) ==
    IF text.num = <<>> THEN Naive(Now) ELSE Naive(Now - text.num[1] * unit)

RECURSIVE parse_news_from(_, _)
parse_news_from(text, i) ==
    IF i > Len(news_formats)
    THEN IF "hour" \in text.words THEN NewsRelative(text, 60)
         ELSE IF "day" \in text.words THEN NewsRelative(text, MinutesPerDay)
         ELSE IF "minute" \in text.words THEN NewsRelative(text, 1)
         ELSE Naive(Now)
    ELSE IF NewsStrptimeOk(text, news_formats[i])
         THEN NewsStrptime(text, news_formats[i])
         ELSE parse_news_from(text, i + 1)

parse_news_date(text) == IF text.empty THEN Naive(Now) ELSE parse_news_from(text, 1)

(***************************************************************************)
(* EarningsScraper._parse_date.  The result is <<d>>, or <<>> for None.    *)
(***************************************************************************)
date_formats ==
    <<"%Y-%m-%d", "%m/%d/%Y", "%m/%d/%y", "%b %d, %Y", "%B %d, %Y",
      "%d %b %Y", "%d %B %Y">>

RECURSIVE parse_date_from(_, _)
parse_date_from(text, i) ==
    IF i > Len(date_formats)
    THEN IF "today" \in text.words THEN <<Today>>
         ELSE IF "tomorrow" \in text.words THEN <<Today + 1>>
         ELSE IF "yesterday" \in text.words THEN <<Today - 1>>
         ELSE <<>>
    ELSE IF text.fmt = date_formats[i] /\ ValidYmd(text.y, text.m, text.d)
         THEN <<Ymd(text.y, text.m, text.d)>>
         ELSE parse_date_from(text, i + 1)

parse_date(text) == parse_date_from(text, 1)

(***************************************************************************)
(* News adapters.  A page is [status, rows] as for the earnings sites, its *)
(* rows the news items in document order.  An item carries the outcome of  *)
(* downloading its article (extract_ok) and the summary/body that the      *)
(* extraction yields when it succeeds.                                     *)
(***************************************************************************)
NewsArticle(ticker, title, url, date, summary, full_text, source) ==
    [ticker |-> ticker, title |-> title, url |-> url, date |-> date,
     summary |-> summary, full_text |-> full_text, source |-> source]

\* NewsScraper._parse_article: {'text', 'summary'} of the article of an item
parse_article(item) ==
    IF item.extract_ok THEN [text |-> item.body, summary |-> item.summary]
    ELSE [text |-> "", summary |-> ""]

\* article_url of the Yahoo adapter: a href starting with '/' is prefixed
YahooUrl(href) ==
    IF href = "/news/a" THEN "https://finance.yahoo.com/news/a" ELSE href

\* article_url of the MarketWatch adapter: a href not starting with 'http'
\* is prefixed
MarketWatchUrl(href) ==
    IF href = "/news/a" THEN "https://www.marketwatch.com/news/a" ELSE href

\* the slice is missing
Limit_unbounded(items, n) == items

\* items[:n]
Limit(items, n) == SubSeq(items, 1, IF Len(items) < n THEN Len(items) ELSE n)

YahooNewsCap == 5
MarketWatchNewsCap == 5
GoogleNewsCap == 3

\* an article whose extraction gave no summary is not taken
RECURSIVE yahoo_news_loop_needs_summary(_, _, _)
yahoo_news_loop_needs_summary(items, ticker, out) ==
    IF items = <<>> THEN out
    ELSE LET item == Head(items)
             url  == YahooUrl(item.href)
         IN
         IF item.link /\ item.title # "" /\ url # "" /\ parse_article(item).summary # ""
         THEN yahoo_news_loop_needs_summary(Tail(items), ticker,
                  Append(out, NewsArticle(ticker, item.title, url,
                                          parse_news_date(item.date_text),
                                          parse_article(item).summary,
                                          parse_article(item).text,
                                          "Yahoo Finance")))
         ELSE yahoo_news_loop_needs_summary(Tail(items), ticker, out)

RECURSIVE yahoo_news_loop(_, _, _)
yahoo_news_loop(items, ticker, out) ==
    IF items = <<>> THEN out
    ELSE LET item == Head(items)
             url  == YahooUrl(item.href)
         IN
         IF item.link /\ item.title # "" /\ url # ""
         THEN yahoo_news_loop(Tail(items), ticker,
                  Append(out, NewsArticle(ticker, item.title, url,
                                          parse_news_date(item.date_text),
                                          parse_article(item).summary,
                                          parse_article(item).text,
                                          "Yahoo Finance")))
         ELSE yahoo_news_loop(Tail(items), ticker, out)

get_yahoo_news(page, ticker, back) ==
    IF page.status = "ok"
    THEN yahoo_news_loop(Limit(page.rows, YahooNewsCap), ticker, <<>>)
    ELSE <<>>

RECURSIVE marketwatch_news_loop(_, _, _)
marketwatch_news_loop(items, ticker, out) ==
    IF items = <<>> THEN out
    ELSE LET item == Head(items)
             url  == MarketWatchUrl(item.href)
         IN
         IF item.link /\ item.title # "" /\ url # ""
         THEN marketwatch_news_loop(Tail(items), ticker,
                  Append(out, NewsArticle(ticker, item.title, url,
                                          parse_news_date(item.date_text),
                                          parse_article(item).summary,
                                          parse_article(item).text,
                                          "MarketWatch")))
         ELSE marketwatch_news_loop(Tail(items), ticker, out)

get_marketwatch_news(page, ticker, back) ==
    IF page.status = "ok"
    THEN marketwatch_news_loop(Limit(page.rows, MarketWatchNewsCap), ticker, <<>>)
    ELSE <<>>

\* the Google News adapter reaches its age test only for an item that has
\* its <title>, <link> and <pubDate> (item.find(...) is None otherwise and
\* the item is skipped by the except clause)
GoogleConsidered(item) == item.link

\* datetime.now() - article_date raises TypeError for an aware article_date;
\* the except clause of the item skips the item
GoogleSubtractRaises(date) == date.aware

\* "Skip if article is too old"
GoogleTooOld(date, back) == TimedeltaDays(Now, date.t) > back

\* the except clause of an item ends the loop
RECURSIVE google_news_loop_stops_on_error(_, _, _, _)
google_news_loop_stops_on_error(items, ticker, back, out) ==
    IF items = <<>> THEN out
    ELSE LET item == Head(items)
             date == parse_news_date(item.date_text)
         IN
         IF ~GoogleConsidered(item) \/ GoogleSubtractRaises(date) THEN out
         ELSE IF ~GoogleTooOld(date, back)
         THEN google_news_loop_stops_on_error(Tail(items), ticker, back,
                  Append(out, NewsArticle(ticker, item.title, item.href, date,
                                          parse_article(item).summary,
                                          parse_article(item).text,
                                          "Google News")))
         ELSE google_news_loop_stops_on_error(Tail(items), ticker, back, out)

RECURSIVE google_news_loop(_, _, _, _)
google_news_loop(items, ticker, back, out) ==
    IF items = <<>> THEN out
    ELSE LET item == Head(items)
             date == parse_news_date(item.date_text)
         IN
         IF GoogleConsidered(item) /\ ~GoogleSubtractRaises(date)
            /\ ~GoogleTooOld(date, back)
         THEN google_news_loop(Tail(items), ticker, back,
                  Append(out, NewsArticle(ticker, item.title, item.href, date,
                                          parse_article(item).summary,
                                          parse_article(item).text,
                                          "Google News")))
         ELSE google_news_loop(Tail(items), ticker, back, out)

get_google_news(page, ticker, back) ==
    IF page.status = "ok"
    THEN google_news_loop(Limit(page.rows, GoogleNewsCap), ticker, back, <<>>)
    ELSE <<>>

\* the list sources of _get_ticker_news
news_sources == <<"_get_yahoo_news", "_get_marketwatch_news", "_get_google_news">>

news_source_func(name, page, ticker, back) ==
    CASE name = "_get_yahoo_news"       -> get_yahoo_news(page, ticker, back)
      [] name = "_get_marketwatch_news" -> get_marketwatch_news(page, ticker, back)
      [] name = "_get_google_news"      -> get_google_news(page, ticker, back)

\* subset=['title'] in place of subset=['url']
(***************************************************************************)
(* The _parse_article calls an adapter makes on a page, in order: each is  *)
(* [source, url, title, date, ok], ok the outcome of the extraction.       *)
(***************************************************************************)
ParseCall(source, url, title, date, ok) ==
    [source |-> source, url |-> url, title |-> title, date |-> date, ok |-> ok]

\* the items the adapter looks at: news_items[:5], items[:3]
NewsWindow(page, cap) == IF page.status = "ok" THEN Limit(page.rows, cap) ELSE <<>>

yahoo_parse_calls(page) ==
    LET reached == SelectSeq(NewsWindow(page, YahooNewsCap),
                             LAMBDA it : it.link /\ it.title # "" /\ YahooUrl(it.href) # "")
    IN  [i \in 1..Len(reached) |->
            ParseCall("Yahoo Finance", YahooUrl(reached[i].href), reached[i].title,
                      parse_news_date(reached[i].date_text), reached[i].extract_ok)]

marketwatch_parse_calls(page) ==
    LET reached == SelectSeq(NewsWindow(page, MarketWatchNewsCap),
                             LAMBDA it : it.link /\ it.title # ""
                                         /\ MarketWatchUrl(it.href) # "")
    IN  [i \in 1..Len(reached) |->
            ParseCall("MarketWatch", MarketWatchUrl(reached[i].href), reached[i].title,
                      parse_news_date(reached[i].date_text), reached[i].extract_ok)]

google_parse_calls(page, back) ==
    LET reached == SelectSeq(NewsWindow(page, GoogleNewsCap),
                             LAMBDA it :
                                /\ GoogleConsidered(it)
                                /\ ~GoogleSubtractRaises(parse_news_date(it.date_text))
                                /\ ~GoogleTooOld(parse_news_date(it.date_text), back))
    IN  [i \in 1..Len(reached) |->
            ParseCall("Google News", reached[i].href, reached[i].title,
                      parse_news_date(reached[i].date_text), reached[i].extract_ok)]

parse_calls(name, page, back) ==
    CASE name = "_get_yahoo_news"       -> yahoo_parse_calls(page)
      [] name = "_get_marketwatch_news" -> marketwatch_parse_calls(page)
      [] name = "_get_google_news"      -> google_parse_calls(page, back)

\* subset=['title'] in place of subset=['url']
NewsKeys_by_title(rows) == [i \in 1..Len(rows) |-> rows[i].title]

NewsKeys(rows) == [i \in 1..Len(rows) |-> rows[i].url]

\* pd.to_datetime(df['date']) raises when the column mixes timezone-aware
\* and timezone-naive datetimes
ToDatetimeRaises(rows) ==
    \E i, j \in 1..Len(rows) : rows[i].date.aware /\ ~rows[j].date.aware

NewsDates(rows) == [i \in 1..Len(rows) |-> rows[i].date.t]

\* get_news_for_tickers after its loop, when all_articles is not empty:
\* drop_duplicates, then to_datetime, then sort_values
NewsDeduplicated(all) == drop_duplicates(all, NewsKeys(all))

NewsFrame(all) ==
    LET df == NewsDeduplicated(all) IN sort_values(df, NewsDates(df), FALSE)

(***************************************************************************)
(* The pages the news sites may serve.                                     *)
(***************************************************************************)
NewsItem(link, href, title, date_text, extract_ok) ==
    [link |-> link, href |-> href, title |-> title, date_text |-> date_text,
     extract_ok |-> extract_ok, summary |-> "summary", body |-> "body"]

\* n copies of an item
Repeat(item, n) == [i \in 1..n |-> item]

\* texts of news dates
RssText(d, hm, fmt, off) == DateText(fmt, CurrentYear, 2, d, hm, off, {}, <<d>>)
HoursAgo(n) == DateText("none", 0, 0, 0, 0, 0, {"hour"}, <<n>>)

YahooNewsPages ==
    { ErrorPage,
      OkPage(Repeat(NewsItem(TRUE, "https://x.com/1", "Apple beats", EmptyText, TRUE),
                    YahooNewsCap + 1)),
      OkPage(<<NewsItem(TRUE, "/news/a", "Outlook",
                        RssText(5, 480, "%a, %d %b %Y %H:%M:%S %z", 0), FALSE)>>) }

MarketWatchNewsPages ==
    { OkPage(<<>>),
      OkPage(Repeat(NewsItem(TRUE, "https://x.com/1", "Apple beats estimates",
                             HoursAgo(3), TRUE),
                    MarketWatchNewsCap + 1)),
      OkPage(<<NewsItem(TRUE, "/news/a", "Guidance",
                        DateText("%Y-%m-%d", CurrentYear, 2, 1, 0, 0, {}, <<2024>>),
                        TRUE),
               NewsItem(FALSE, "", "", EmptyText, TRUE)>>) }

GoogleNewsPages ==
    { ErrorPage,
      OkPage(<<NewsItem(TRUE, "https://x.com/1", "Apple tops",
                        RssText(4, 600, "%a, %d %b %Y %H:%M:%S %Z", 0), TRUE)>>),
      OkPage(<<NewsItem(TRUE, "https://x.com/2", "Old story",
                        RssText(1, 600, "%a, %d %b %Y %H:%M:%S %Z", 0), TRUE),
               NewsItem(TRUE, "https://x.com/2", "Old story again",
                        HoursAgo(30), FALSE)>>
             \o Repeat(NewsItem(TRUE, "https://x.com/3", "Older story",
                                HoursAgo(20), TRUE),
                       GoogleNewsCap - 1)),
      OkPage(<<NewsItem(TRUE, "https://x.com/9", "",
                        RssText(4, 600, "%a, %d %b %Y %H:%M:%S %Z", 0), TRUE)>>) }

NewsPages(name) ==
    CASE name = "_get_yahoo_news"       -> YahooNewsPages
      [] name = "_get_marketwatch_news" -> MarketWatchNewsPages
      [] name = "_get_google_news"      -> GoogleNewsPages

TickerSymbols == {"AAPL", "MSFT"}
DaysBackValues == {1, 7}

\* the items of a Google News feed in a run of the adapter alone: ages of
\* 6 days, 7 days and 2 hours, 8 days and 1 hour, 30 hours, an aware
\* pubDate, an item with empty title, link and pubDate, an item without
\* pubDate element
GoogleDate(m, d, hm) ==
    DateText("%a, %d %b %Y %H:%M:%S %Z", CurrentYear, m, d, hm, 0, {}, <<d>>)

GoogleItems ==
    { NewsItem(TRUE, "https://x.com/1", "Six days", GoogleDate(1, 30, 600), FALSE),
      NewsItem(TRUE, "https://x.com/2", "Seven days and two hours",
               GoogleDate(1, 29, 480), TRUE),
      NewsItem(TRUE, "https://x.com/3", "Eight days and one hour",
               GoogleDate(1, 28, 540), TRUE),
      NewsItem(TRUE, "https://x.com/5", "Thirty hours", GoogleDate(2, 4, 240), TRUE),
      NewsItem(TRUE, "https://x.com/4", "Aware",
               RssText(5, 540, "%a, %d %b %Y %H:%M:%S %z", 0), TRUE),
      NewsItem(TRUE, "", "", EmptyText, TRUE),
      NewsItem(FALSE, "", "", EmptyText, TRUE) }

GoogleRunPages == {ErrorPage} \cup {OkPage(q) : q \in SeqsUpTo(GoogleItems, MaxItems)}

\* the texts handed to the date parsers in a run of a parser alone
ParserTexts ==
    FinvizTexts
    \cup { EmptyText,
           HoursAgo(2),
           DateText("none", 0, 0, 0, 0, 0, {"day"}, <<3>>),                \* 3 days ago
           DateText("none", 0, 0, 0, 0, 0, {"minute"}, <<45>>),            \* 45 minutes ago
           DateText("none", 0, 0, 0, 0, 0, {"hour"}, <<>>),                \* an hour ago
           DateText("none", 0, 0, 0, 0, 0, {"day", "today"}, <<>>),        \* Today
           DateText("none", 0, 0, 0, 0, 0, {"tomorrow"}, <<>>),            \* Tomorrow
           DateText("none", 0, 0, 0, 0, 0, {"day", "yesterday"}, <<>>),    \* Yesterday
           DateText("none", 0, 0, 0, 0, 0, {}, <<12>>),                    \* Q1 12
           DateText("%B %d, %Y", 2024, 2, 7, 0, 0, {}, <<7>>),             \* February 7, 2024
           DateText("%B %d", 0, 2, 29, 0, 0, {}, <<29>>),                  \* February 29th
           DateText("%m/%d/%Y", 1900, 3, 1, 0, 0, {}, <<3>>),              \* 03/01/1900
           DateText("%Y-%m-%d", 2023, 2, 29, 0, 0, {}, <<2023>>),          \* 2023-02-29
           RssText(5, 480, "%a, %d %b %Y %H:%M:%S %z", 0),
           RssText(4, 600, "%a, %d %b %Y %H:%M:%S %Z", 0) }

Range(seq) == {seq[i] : i \in 1..Len(seq)}

(***************************************************************************)
(* utils.py.  A str is the sequence of its characters.                     *)
(***************************************************************************)
UpperChars == <<"A", "B", "C", "D", "E", "F", "G", "H", "I", "J", "K", "L", "M",
                "N", "O", "P", "Q", "R", "S", "T", "U", "V", "W", "X", "Y", "Z">>
LowerChars == <<"a", "b", "c", "d", "e", "f", "g", "h", "i", "j", "k", "l", "m",
                "n", "o", "p", "q", "r", "s", "t", "u", "v", "w", "x", "y", "z">>

\* str.lower()
lower_char(c) ==
    IF \E i \in 1..Len(UpperChars) : UpperChars[i] = c
    THEN LowerChars[CHOOSE i \in 1..Len(UpperChars) : UpperChars[i] = c]
    ELSE c

lower(s) == [i \in 1..Len(s) |-> lower_char(s[i])]

\* "word in s"
Contains(s, word) ==
    \E i \in 0..(Len(s) - Len(word)) : SubSeq(s, i + 1, i + Len(word)) = word

\* create_ical_event: DTSTART and DTEND as the date and the minute of the
\* day (UTC), SUMMARY and DESCRIPTION as the values they are built from
create_ical_event(ticker, company, date, time) ==
    LET start == IF Contains(lower(time), <<"p", "r", "e">>) THEN 13 * 60
                 ELSE IF Contains(lower(time), <<"a", "f", "t", "e", "r">>) THEN 21 * 60
                 ELSE 9 * 60
        end   == IF Contains(lower(time), <<"p", "r", "e">>) THEN 14 * 60
                 ELSE IF Contains(lower(time), <<"a", "f", "t", "e", "r">>) THEN 22 * 60
                 ELSE 10 * 60
    IN  [dtstart |-> [date |-> date, minute |-> start],
         dtend   |-> [date |-> date, minute |-> end],
         summary |-> ticker, description |-> <<company, ticker>>]

\* any(word in time_lower for word in words)
AnyWordIn(words, time_lower) == \E w \in words : Contains(time_lower, w)

get_earnings_time_category(time_str) ==
    IF time_str = <<>> THEN "Unknown"
    ELSE LET time_lower == lower(time_str) IN
         IF AnyWordIn({<<"p", "r", "e">>, <<"b", "e", "f", "o", "r", "e">>, <<"a", "m">>}, time_lower)
         THEN "Pre-market"
         ELSE IF AnyWordIn({<<"a", "f", "t", "e", "r">>, <<"c", "l", "o", "s", "e">>, <<"p", "m">>},
                           time_lower)
         THEN "After-hours"
         ELSE IF AnyWordIn({<<"d", "u", "r", "i", "n", "g">>, <<"m", "a", "r", "k", "e", "t">>, <<"o", "p", "e", "n">>},
                           time_lower)
         THEN "Market hours"
         ELSE "Unknown"

\* str.upper()
upper_char(c) ==
    IF \E i \in 1..Len(LowerChars) : LowerChars[i] = c
    THEN UpperChars[CHOOSE i \in 1..Len(LowerChars) : LowerChars[i] = c]
    ELSE c

upper(s) == [i \in 1..Len(s) |-> upper_char(s[i])]

\* str.strip()
RECURSIVE lstrip(_)
lstrip(s) == IF s # <<>> /\ Head(s) = " " THEN lstrip(Tail(s)) ELSE s

RECURSIVE rstrip(_)
rstrip(s) ==
    IF s # <<>> /\ s[Len(s)] = " " THEN rstrip(SubSeq(s, 1, Len(s) - 1)) ELSE s

strip(s) == rstrip(lstrip(s))

\* s.endswith(suffix)
EndsWith(s, suffix) ==
    /\ Len(s) >= Len(suffix)
    /\ SubSeq(s, Len(s) - Len(suffix) + 1, Len(s)) = suffix

\* the list suffixes of clean_ticker
suffixes == << <<"-", "U", "S", "D">>, <<"-", "U", "S">>, <<".", "U", "S">>,
              <<".", "T", "O">>, <<".", "L">> >>

\* "for suffix in suffixes: if ticker.endswith(suffix): ticker = ticker[:-len(suffix)]"
RECURSIVE remove_suffixes(_, _)
remove_suffixes(ticker, i) ==
    IF i > Len(suffixes) THEN ticker
    ELSE IF EndsWith(ticker, suffixes[i])
         THEN remove_suffixes(SubSeq(ticker, 1, Len(ticker) - Len(suffixes[i])), i + 1)
         ELSE remove_suffixes(ticker, i + 1)

\* ticker.replace('.', '')
remove_dots(ticker) == SelectSeq(ticker, LAMBDA c : c # ".")

clean_ticker(ticker) ==
    IF ticker = <<>> THEN <<>>
    ELSE remove_dots(remove_suffixes(strip(upper(ticker)), 1))

\* str.isalpha()
isalpha(s) ==
    /\ s # <<>>
    /\ \A i \in 1..Len(s) : s[i] \in Range(UpperChars) \cup Range(LowerChars)

validate_ticker(ticker) ==
    IF ticker = <<>> THEN FALSE
    ELSE LET cleaned == clean_ticker(ticker) IN
         /\ Len(cleaned) >= 1
         /\ Len(cleaned) <= 5
         /\ isalpha(cleaned)

\* the ticker texts handed to clean_ticker and validate_ticker
TickerTexts ==
    { <<"A", "A", "P", "L", ".", "U", "S">>,
      <<"m", "s", "f", "t", "-", "u", "s", "d">>,
      <<"G", "O", "O", "G", "L">>,
      <<"B", "R", "K", ".", "B">>,
      <<"R", "Y", ".", "T", "O">>,
      <<" ", "a", "a", "p", "l", " ">>,
      <<"B", "T", "C", "-", "U", "S", "D", "-", "U", "S", "D">>,
      <<"A", "-", "U", ".", "S">>,
      <<"A", "B", " ", "-", "U", "S">>,
      <<"T", "O", "O", "L", "O", "N", "G">>,
      <<"X", "1">>,
      <<".", "L">>,
      <<>> }

\* the time texts of the rows handed to create_ical_event
IcalTimes ==
    { <<"P", "r", "e", "-", "m", "a", "r", "k", "e", "t">>,
      <<"A", "f", "t", "e", "r", "-", "h", "o", "u", "r", "s">>,
      <<"P", "R", "E", "-", "M", "A", "R", "K", "E", "T">>,
      <<"A", "f", "t", "e", "r", " ", "M", "a", "r", "k", "e", "t", " ", "C", "l", "o", "s", "e">>,
      <<"B", "e", "f", "o", "r", "e", " ", "M", "a", "r", "k", "e", "t", " ", "O", "p", "e", "n">>,
      <<"D", "u", "r", "i", "n", "g", " ", "m", "a", "r", "k", "e", "t">>,
      <<"U", "n", "k", "n", "o", "w", "n">>,
      <<"N", "/", "A">>,
      <<>> }

IcalArgs ==
    { [ticker |-> "AAPL", company |-> "Apple", date |-> d, time |-> t] :
          d \in {Today, Ymd(CurrentYear, 12, 31)}, t \in IcalTimes }

Calls ==
    {"get_earnings_calendar", "get_news_for_tickers", "_get_google_news",
     "_scrape_finviz_earnings", "_parse_news_date", "_parse_finviz_date",
     "_parse_date", "load_earnings_data", "load_news_data",
     "_scrape_investing_earnings", "_scrape_yahoo_finance_api",
     "_scrape_marketwatch_earnings", "create_ical_event", "clean_ticker",
     "validate_ticker"}

(***************************************************************************)
(* The state after construction, and the operations.                       *)
(***************************************************************************)
Init ==
    /\ call \in Calls
    /\ days_ahead \in (IF call \in {"get_earnings_calendar"} \cup Range(sources)
                       THEN DaysAheadValues ELSE {30})
    /\ e_pc = "loop"
    /\ e_next = 1
    /\ all_earnings = <<>>
    /\ e_batches = <<>>
    /\ e_events = <<>>
    /\ e_status = "running"
    /\ e_table = <<>>
    /\ tickers \in (IF call = "get_news_for_tickers"
                    THEN SeqsUpTo(TickerSymbols, MaxTickers) ELSE {<<"AAPL">>})
    /\ days_back \in (IF call \in {"get_news_for_tickers", "_get_google_news"}
                      THEN DaysBackValues ELSE {7})
    /\ n_pc = "loop"
    /\ n_tick = 1
    /\ n_src = 1
    /\ articles = <<>>
    /\ all_articles = <<>>
    /\ n_batches = <<>>
    /\ n_events = <<>>
    /\ n_status = "running"
    /\ n_table = <<>>
    /\ n_parse_log = <<>>
    /\ a_page \in (IF call = "_get_google_news" THEN GoogleRunPages
                   ELSE IF call \in Range(sources) THEN EarningsPages(call)
                   ELSE {ErrorPage})
    /\ a_out = <<>>
    /\ a_done = FALSE
    /\ a_log = <<>>
    /\ p_text \in (IF call \in {"_parse_news_date", "_parse_finviz_date", "_parse_date"}
                   THEN ParserTexts ELSE {NoText})
    /\ p_out = <<>>
    /\ p_done = FALSE
    /\ clock = 0
    /\ cache = {}
    /\ loads = <<>>
    /\ u_in \in (IF call = "create_ical_event" THEN IcalArgs
                 ELSE IF call \in {"clean_ticker", "validate_ticker"} THEN TickerTexts
                 ELSE {<<>>})
    /\ u_out = <<>>
    /\ u_done = FALSE

\* a batch of one record is not taken
extend_all_earnings_more_than_one(all, earnings) ==
    IF Len(earnings) > 1 THEN all \o earnings ELSE all

\* "if earnings: all_earnings.extend(earnings)"
extend_all_earnings(all, earnings) ==
    IF earnings # <<>> THEN all \o earnings ELSE all

\* an empty result ends the loop
next_source_break_on_empty(i, earnings) ==
    IF earnings = <<>> THEN Len(sources) + 1 ELSE i + 1

\* a source that returned nothing is tried a second time
next_source_retry_once(i, earnings) ==
    IF earnings = <<>> /\ Len(e_events) = 2 * (i - 1) THEN i ELSE i + 1

\* the loop goes on with the next source whatever source i returned
next_source(i, earnings) == i + 1

\* one iteration of "for source_func in sources" of get_earnings_calendar
ScrapeSource(i) ==
    /\ call = "get_earnings_calendar"
    /\ e_pc = "loop"
    /\ e_next = i
    /\ i <= Len(sources)
    /\ \E page \in EarningsPages(sources[i]) :
          LET earnings == source_func(sources[i], page, days_ahead) IN
          /\ all_earnings' = extend_all_earnings(all_earnings, earnings)
          /\ e_batches' = Append(e_batches, earnings)
          /\ e_next' = next_source(i, earnings)
    /\ e_events' = e_events \o <<sources[i], "sleep">>
    /\ UNCHANGED <<call, days_ahead, e_pc, e_status, e_table, nvars, avars, pvars, cvars, uvars>>

\* get_earnings_calendar after its loop
ReturnEarnings ==
    /\ call = "get_earnings_calendar"
    /\ e_pc = "loop"
    /\ e_next > Len(sources)
    /\ e_pc' = "done"
    /\ e_status' = "returned"
    /\ e_table' = IF all_earnings = <<>> THEN <<>> ELSE EarningsFrame(all_earnings)
    /\ UNCHANGED <<call, days_ahead, e_next, all_earnings, e_batches, e_events,
                   nvars, avars, pvars, cvars, uvars>>

\* the articles of the ticker replace those collected before
extend_all_articles_assign(all, ticker_articles) == ticker_articles

\* "all_articles.extend(articles)"
extend_all_articles(all, ticker_articles) == all \o ticker_articles

\* the calls of one adapter invocation, tagged with the index of its ticker
LogFor(t, calls) == [k \in 1..Len(calls) |-> [tick |-> t, call |-> calls[k]]]

NewsCall(t, name) == [kind |-> "call", ticker |-> t, name |-> name]
NewsSleep(t) == [kind |-> "sleep", ticker |-> t, name |-> ""]

\* one iteration of "for source_func in sources" of _get_ticker_news, inside
\* the iteration of "for ticker in tickers" of get_news_for_tickers; after
\* the last source _get_ticker_news returns and the caller extends
\* all_articles and sleeps
NewsSource(i) ==
    /\ call = "get_news_for_tickers"
    /\ n_pc = "loop"
    /\ n_tick <= Len(tickers)
    /\ n_src = i
    /\ i <= Len(news_sources)
    /\ \E page \in NewsPages(news_sources[i]) :
          LET source_articles ==
                  news_source_func(news_sources[i], page, tickers[n_tick], days_back)
              extended == articles \o source_articles
          IN
          /\ n_batches' = Append(n_batches, source_articles)
          /\ n_parse_log' = n_parse_log
                  \o LogFor(n_tick, parse_calls(news_sources[i], page, days_back))
          /\ IF i = Len(news_sources)
             THEN /\ all_articles' = extend_all_articles(all_articles, extended)
                  /\ articles' = <<>>
             ELSE /\ articles' = extended
                  /\ UNCHANGED all_articles
    /\ IF i = Len(news_sources)
       THEN /\ n_tick' = n_tick + 1
            /\ n_src' = 1
            /\ n_events' = n_events \o <<NewsCall(n_tick, news_sources[i]),
                                         NewsSleep(n_tick)>>
       ELSE /\ n_src' = i + 1
            /\ n_events' = Append(n_events, NewsCall(n_tick, news_sources[i]))
            /\ UNCHANGED n_tick
    /\ UNCHANGED <<call, tickers, days_back, n_pc, n_status, n_table, evars,
                   avars, pvars, cvars, uvars>>

\* get_news_for_tickers after its loop
ReturnNews ==
    /\ call = "get_news_for_tickers"
    /\ n_pc = "loop"
    /\ n_tick > Len(tickers)
    /\ n_pc' = "done"
    /\ IF all_articles = <<>>
       THEN n_status' = "returned" /\ n_table' = <<>>
       ELSE IF ToDatetimeRaises(NewsDeduplicated(all_articles))
       THEN n_status' = "raised" /\ n_table' = <<>>
       ELSE n_status' = "returned" /\ n_table' = NewsFrame(all_articles)
    /\ UNCHANGED <<call, tickers, days_back, n_tick, n_src, articles,
                   all_articles, n_batches, n_events, n_parse_log, evars,
                   avars, pvars, cvars, uvars>>

\* _get_google_news(ticker, days_back) on its own
RunGoogleNews ==
    /\ call = "_get_google_news"
    /\ ~a_done
    /\ a_out' = get_google_news(a_page, tickers[1], days_back)
    /\ a_log' = google_parse_calls(a_page, days_back)
    /\ a_done' = TRUE
    /\ UNCHANGED <<call, a_page, evars, nvars, pvars, cvars, uvars>>

\* _scrape_finviz_earnings on its own, on one page
RunFinvizEarnings ==
    /\ call = "_scrape_finviz_earnings"
    /\ ~a_done
    /\ a_out' = scrape_finviz_earnings(a_page, days_ahead)
    /\ a_done' = TRUE
    /\ UNCHANGED <<call, a_page, a_log, evars, nvars, pvars, cvars, uvars>>

\* one of the three adapters without a per-row date on its own, on one page
RunEarningsAdapter(name) ==
    /\ call = name
    /\ name # "_scrape_finviz_earnings"
    /\ ~a_done
    /\ a_out' = source_func(name, a_page, days_ahead)
    /\ a_done' = TRUE
    /\ UNCHANGED <<call, a_page, a_log, evars, nvars, pvars, cvars, uvars>>

\* create_ical_event(ticker, company, date, time) on one earnings row
CreateIcalEvent ==
    /\ call = "create_ical_event"
    /\ ~u_done
    /\ u_out' = <<create_ical_event(u_in.ticker, u_in.company, u_in.date, u_in.time)>>
    /\ u_done' = TRUE
    /\ UNCHANGED <<call, u_in, evars, nvars, avars, pvars, cvars>>

\* clean_ticker(ticker)
CleanTicker ==
    /\ call = "clean_ticker"
    /\ ~u_done
    /\ u_out' = <<clean_ticker(u_in)>>
    /\ u_done' = TRUE
    /\ UNCHANGED <<call, u_in, evars, nvars, avars, pvars, cvars>>

\* validate_ticker(ticker)
ValidateTicker ==
    /\ call = "validate_ticker"
    /\ ~u_done
    /\ u_out' = <<validate_ticker(u_in)>>
    /\ u_done' = TRUE
    /\ UNCHANGED <<call, u_in, evars, nvars, avars, pvars, cvars>>

\* the three date parsers on their own; p_out is <<result>>, <<>> for None
ParseNewsDate ==
    /\ call = "_parse_news_date"
    /\ ~p_done
    /\ p_out' = <<parse_news_date(p_text)>>
    /\ p_done' = TRUE
    /\ UNCHANGED <<call, p_text, evars, nvars, avars, cvars, uvars>>

ParseFinvizDate ==
    /\ call = "_parse_finviz_date"
    /\ ~p_done
    /\ p_out' = <<parse_finviz_date(p_text)>>
    /\ p_done' = TRUE
    /\ UNCHANGED <<call, p_text, evars, nvars, avars, cvars, uvars>>

ParseDate ==
    /\ call = "_parse_date"
    /\ ~p_done
    /\ p_out' = parse_date(p_text)
    /\ p_done' = TRUE
    /\ UNCHANGED <<call, p_text, evars, nvars, avars, cvars, uvars>>

(***************************************************************************)
(* The cached loaders of the application.  get_earnings_calendar and       *)
(* get_news_for_tickers as functions of the pages the sites serve during   *)
(* the call; st.cache_data(ttl) keeps one entry for each function and      *)
(* argument value and drops it ttl seconds after it was stored.            *)
(***************************************************************************)
RECURSIVE collect_earnings(_, _, _, _)
collect_earnings(i, pages, ahead, all) ==
    IF i > Len(sources) THEN all
    ELSE collect_earnings(i + 1, pages, ahead,
             extend_all_earnings(all, source_func(sources[i], pages[i], ahead)))

get_earnings_calendar(pages, ahead) ==
    LET all == collect_earnings(1, pages, ahead, <<>>) IN
    IF all = <<>> THEN <<>> ELSE EarningsFrame(all)

RECURSIVE get_ticker_news(_, _, _, _, _)
get_ticker_news(i, pages, ticker, back, found) ==
    IF i > Len(news_sources) THEN found
    ELSE get_ticker_news(i + 1, pages, ticker, back,
             found \o news_source_func(news_sources[i], pages[i], ticker, back))

RECURSIVE collect_news(_, _, _, _, _)
collect_news(t, list, pages, back, all) ==
    IF t > Len(list) THEN all
    ELSE collect_news(t + 1, list, pages, back,
             extend_all_articles(all, get_ticker_news(1, pages, list[t], back, <<>>)))

\* the outcome of get_news_for_tickers: the table, or the exception of
\* pd.to_datetime
get_news_for_tickers(list, pages, back) ==
    LET all == collect_news(1, list, pages, back, <<>>) IN
    IF all = <<>> THEN [raised |-> FALSE, table |-> <<>>]
    ELSE IF ToDatetimeRaises(NewsDeduplicated(all))
    THEN [raised |-> TRUE, table |-> <<>>]
    ELSE [raised |-> FALSE, table |-> NewsFrame(all)]

DefaultDaysAhead == 30
DefaultDaysBack == 7

\* the body of load_earnings_data
load_earnings_data(pages) == get_earnings_calendar(pages, DefaultDaysAhead)

\* the body of load_news_data: an exception gives the empty DataFrame
load_news_data(list, pages) ==
    LET r == get_news_for_tickers(list, pages, DefaultDaysBack) IN
    IF r.raised THEN <<>> ELSE r.table

EarningsTtl == 3600
NewsTtl == 1800

\* both loaders carry the decorator of load_news_data
Ttl_of_news_for_both(fn) == NewsTtl

\* the ttl of the decorator of the loader fn
Ttl(fn) == IF fn = "load_earnings_data" THEN EarningsTtl ELSE NewsTtl

CacheEntry(fn, key, at, table) == [fn |-> fn, key |-> key, at |-> at, table |-> table]

\* one call of a loader: when, what it returned, how many adapters it invoked
Load(fn, key, at, table, invoked) ==
    [fn |-> fn, key |-> key, at |-> at, table |-> table, invoked |-> invoked]

\* an entry is never dropped
CacheHitOutcomes_never_expires(entry, ttl, now) == {TRUE}

\* whether the entry is served at time now: it is while younger than ttl, it
\* is not once older, and at the very instant of expiry either may happen
CacheHitOutcomes(entry, ttl, now) ==
    IF now - entry.at < ttl THEN {TRUE}
    ELSE IF now - entry.at > ttl THEN {FALSE}
    ELSE {TRUE, FALSE}

\* the delays between two calls of a loader
Advances ==
    {NewsTtl \div 3, (2 * NewsTtl) \div 3, NewsTtl, (3 * EarningsTtl) \div 4,
     EarningsTtl}

\* what the four earnings sites serve during one aggregation
AppEarningsSites ==
    { <<ErrorPage, ErrorPage, ErrorPage, ErrorPage>>,
      <<OkPage(<<FinvizRow(1, TRUE, DateText("%B %d", 0, 2, 6, 0, 0, {}, <<6>>),
                           FALSE, "", "", ""),
                 FinvizRow(3, FALSE, NoText, TRUE, "AAPL", "Apple", "Pre-market")>>),
        ErrorPage, ErrorPage, ErrorPage>>,
      <<NoTablePage, ErrorPage, ErrorPage,
        OkPage(<<MarketWatchRow(3, TRUE, "MSFT", "MSFT", "", ""),
                 MarketWatchRow(3, TRUE, "AAPL", "AAPL", "Apple", "Pre-market")>>)>> }

\* what the three news sites serve during one aggregation
AppNewsSites ==
    { <<ErrorPage, OkPage(<<>>),
        OkPage(<<NewsItem(TRUE, "https://x.com/1", "Apple tops",
                          RssText(4, 600, "%a, %d %b %Y %H:%M:%S %Z", 0), TRUE)>>)>>,
      <<OkPage(<<NewsItem(TRUE, "/news/a", "Outlook",
                          RssText(5, 480, "%a, %d %b %Y %H:%M:%S %z", 0), FALSE)>>),
        OkPage(<<NewsItem(TRUE, "/news/a", "Guidance",
                          DateText("%Y-%m-%d", CurrentYear, 2, 1, 0, 0, {}, <<2024>>),
                          TRUE)>>),
        ErrorPage>> }

\* the ticker lists the application asks news for
AppTickerLists == {<<"AAPL">>, <<"MSFT">>}

MaxLoads == 3

\* load_earnings_data() under st.cache_data(ttl=3600)
LoadEarningsData ==
    /\ call = "load_earnings_data"
    /\ Len(loads) < MaxLoads
    /\ \E d \in Advances :
          LET now == clock + d
              entries == {c \in cache : c.fn = "load_earnings_data" /\ c.key = <<>>}
          IN
          /\ clock' = now
          /\ \/ \E c \in entries :
                   /\ TRUE \in CacheHitOutcomes(c, Ttl("load_earnings_data"), now)
                   /\ loads' = Append(loads, Load("load_earnings_data", <<>>, now,
                                                  c.table, 0))
                   /\ UNCHANGED cache
             \/ /\ \A c \in entries : FALSE \in CacheHitOutcomes(c, Ttl("load_earnings_data"), now)
                /\ \E pages \in AppEarningsSites :
                      LET table == load_earnings_data(pages) IN
                      /\ cache' = (cache \ entries)
                            \cup {CacheEntry("load_earnings_data", <<>>, now, table)}
                      /\ loads' = Append(loads, Load("load_earnings_data", <<>>, now,
                                                     table, Len(sources)))
    /\ UNCHANGED <<call, evars, nvars, avars, pvars, uvars>>

\* load_news_data(tickers) under st.cache_data(ttl=1800)
LoadNewsData ==
    /\ call = "load_news_data"
    /\ Len(loads) < MaxLoads
    /\ \E d \in Advances, list \in AppTickerLists :
          LET now == clock + d
              entries == {c \in cache : c.fn = "load_news_data" /\ c.key = list}
          IN
          /\ clock' = now
          /\ \/ \E c \in entries :
                   /\ TRUE \in CacheHitOutcomes(c, Ttl("load_news_data"), now)
                   /\ loads' = Append(loads, Load("load_news_data", list, now,
                                                  c.table, 0))
                   /\ UNCHANGED cache
             \/ /\ \A c \in entries : FALSE \in CacheHitOutcomes(c, Ttl("load_news_data"), now)
                /\ \E pages \in AppNewsSites :
                      LET table == load_news_data(list, pages) IN
                      /\ cache' = (cache \ entries)
                            \cup {CacheEntry("load_news_data", list, now, table)}
                      /\ loads' = Append(loads, Load("load_news_data", list, now, table,
                                                     Len(news_sources) * Len(list)))
    /\ UNCHANGED <<call, evars, nvars, avars, pvars, uvars>>

Next ==
    \/ \E i \in 1..Len(sources) : ScrapeSource(i)
    \/ ReturnEarnings
    \/ \E i \in 1..Len(news_sources) : NewsSource(i)
    \/ ReturnNews
    \/ RunGoogleNews
    \/ RunFinvizEarnings
    \/ \E name \in Range(sources) : RunEarningsAdapter(name)
    \/ ParseNewsDate
    \/ ParseFinvizDate
    \/ ParseDate
    \/ LoadEarningsData
    \/ LoadNewsData
    \/ CreateIcalEvent
    \/ CleanTicker
    \/ ValidateTicker

Spec == Init /\ [][Next]_vars

(***************************************************************************)
(* Properties.                                                             *)
(***************************************************************************)
RECURSIVE Flatten(_)
Flatten(batches) ==
    IF batches = <<>> THEN <<>> ELSE Head(batches) \o Flatten(Tail(batches))

\* the first position of the concatenation whose key equals that of position i
FirstWith(keys, i) == CHOOSE k \in 1..i : keys[k] = keys[i] /\ \A j \in 1..(k - 1) : keys[j] # keys[i]

EarningsReturned == call = "get_earnings_calendar" /\ e_pc = "done" /\ e_status = "returned"
NewsReturned == call = "get_news_for_tickers" /\ n_pc = "done" /\ n_status = "returned"

\* C1: after get_earnings_calendar every (ticker, date) pair an adapter
\* produced is held by exactly one row of the table, and that row has the
\* company, time and source of the first record with the pair in the order
\* Finviz, Investing.com, Yahoo Finance, MarketWatch.
C1_EarningsDedupFirstWins ==
    EarningsReturned =>
        LET produced == Flatten(e_batches)
            keys     == EarningsKeys(produced)
        IN  \A i \in 1..Len(produced) :
               LET first == produced[FirstWith(keys, i)]
                   held  == {r \in 1..Len(e_table) :
                                /\ e_table[r].ticker = produced[i].ticker
                                /\ e_table[r].date = DateToDatetime(produced[i].date)}
               IN  /\ Cardinality(held) = 1
                   /\ \A r \in held :
                         /\ e_table[r].company = first.company
                         /\ e_table[r].time = first.time
                         /\ e_table[r].source = first.source

\* two adapters produced the same (ticker, date) with different time labels,
\* and the call has returned
C1_Witness ==
    /\ EarningsReturned
    /\ \E a, b \in 1..Len(e_batches) :
          /\ a < b
          /\ \E x \in 1..Len(e_batches[a]), y \in 1..Len(e_batches[b]) :
                /\ e_batches[a][x].ticker = e_batches[b][y].ticker
                /\ e_batches[a][x].date = e_batches[b][y].date
                /\ e_batches[a][x].time # e_batches[b][y].time

\* C2: after get_news_for_tickers every url an adapter returned is in
\* exactly one row of the table, and that row has the ticker, title, date,
\* summary and source of the first article with the url in processing order.
C2_NewsDedupFirstWins ==
    NewsReturned =>
        LET produced == Flatten(n_batches)
            keys     == NewsKeys(produced)
        IN  \A i \in 1..Len(produced) :
               LET first == produced[FirstWith(keys, i)]
                   held  == {r \in 1..Len(n_table) : n_table[r].url = produced[i].url}
               IN  /\ Cardinality(held) = 1
                   /\ \A r \in held :
                         /\ n_table[r].ticker = first.ticker
                         /\ n_table[r].title = first.title
                         /\ n_table[r].date = first.date
                         /\ n_table[r].summary = first.summary
                         /\ n_table[r].source = first.source

\* the same url came from two adapter invocations with different titles, and
\* the call has returned
C2_Witness ==
    /\ NewsReturned
    /\ \E a, b \in 1..Len(n_batches) :
          /\ a < b
          /\ \E x \in 1..Len(n_batches[a]), y \in 1..Len(n_batches[b]) :
                /\ n_batches[a][x].url = n_batches[b][y].url
                /\ n_batches[a][x].title # n_batches[b][y].title

\* C3: get_earnings_calendar and get_news_for_tickers are total: whatever
\* the adapters returned and whatever dates the parsers produced, the call
\* returns a table and no exception reaches the caller.
C3_AggregatorsTotal ==
    /\ (e_pc = "done" => e_status = "returned")
    /\ (n_pc = "done" => n_status = "returned")

\* C4: when an earnings adapter fails, every other adapter is still invoked
\* and every record the other adapters returned is represented in the table
\* by a row with its (ticker, date).
C4_FailingSourceDoesNotAbort ==
    EarningsReturned =>
        /\ SelectSeq(e_events, LAMBDA e : e # "sleep") = sources
        /\ Len(e_batches) = Len(sources)
        /\ \A b \in 1..Len(e_batches) : \A x \in 1..Len(e_batches[b]) :
              \E r \in 1..Len(e_table) :
                 /\ e_table[r].ticker = e_batches[b][x].ticker
                 /\ e_table[r].date = DateToDatetime(e_batches[b][x].date)

\* an adapter returned nothing, a later one returned records, and the call
\* has returned
C4_Witness ==
    /\ EarningsReturned
    /\ \E a, b \in 1..Len(e_batches) :
          a < b /\ e_batches[a] = <<>> /\ e_batches[b] # <<>>

\* C5: when every adapter invoked returned an empty list the aggregator
\* returns a table of size 0 and raises nothing, and a returned table is
\* empty only when no adapter returned a record.
C5_EmptyIffNothingScraped ==
    /\ (call = "get_earnings_calendar" /\ e_pc = "done") =>
          /\ (\A b \in 1..Len(e_batches) : e_batches[b] = <<>>)
                => (e_status = "returned" /\ Len(e_table) = 0)
          /\ (e_status = "returned" /\ Len(e_table) = 0)
                => (\A b \in 1..Len(e_batches) : e_batches[b] = <<>>)
    /\ (call = "get_news_for_tickers" /\ n_pc = "done") =>
          /\ (\A b \in 1..Len(n_batches) : n_batches[b] = <<>>)
                => (n_status = "returned" /\ Len(n_table) = 0)
          /\ (n_status = "returned" /\ Len(n_table) = 0)
                => (\A b \in 1..Len(n_batches) : n_batches[b] = <<>>)

\* every adapter of a finished aggregation returned an empty list
C5_Witness ==
    \/ /\ EarningsReturned
       /\ Len(e_batches) = Len(sources)
       /\ \A b \in 1..Len(e_batches) : e_batches[b] = <<>>
    \/ /\ NewsReturned
       /\ Len(n_batches) = 2 * Len(news_sources)
       /\ \A b \in 1..Len(n_batches) : n_batches[b] = <<>>

\* C6: a non-empty table returned by get_earnings_calendar is non-decreasing
\* by date.
C6_EarningsAscending ==
    EarningsReturned =>
        \A i \in 1..(Len(e_table) - 1) : e_table[i].date <= e_table[i + 1].date

\* the records were collected out of date order, and the call has returned
C6_Witness ==
    /\ EarningsReturned
    /\ Len(e_table) >= 2
    /\ \E i \in 1..(Len(all_earnings) - 1) :
          all_earnings[i].date > all_earnings[i + 1].date

\* C7: a non-empty table returned by get_news_for_tickers is non-increasing
\* by date, most recent first.
C7_NewsDescending ==
    NewsReturned =>
        \A i \in 1..(Len(n_table) - 1) : n_table[i].date.t >= n_table[i + 1].date.t

\* the articles were collected oldest first, and the call has returned
C7_Witness ==
    /\ NewsReturned
    /\ Len(n_table) >= 2
    /\ \E i \in 1..(Len(all_articles) - 1) :
          all_articles[i].date.t < all_articles[i + 1].date.t

\* C8: every record the Finviz adapter emits for fetch(days_ahead) has a
\* date d with today <= d <= today + days_ahead.
C8_FinvizWithinWindow ==
    (call = "get_earnings_calendar" /\ Len(e_batches) >= 1) =>
        \A x \in 1..Len(e_batches[1]) :
           /\ Today <= e_batches[1][x].date
           /\ e_batches[1][x].date <= Today + days_ahead

\* the items of the page the Google News adapter looks at: the first three,
\* those having title, link and pubDate
GoogleLooksAt == {i \in 1..Len(Limit(a_page.rows, GoogleNewsCap)) : a_page.rows[i].link}

GoogleEmitted(i) ==
    \E x \in 1..Len(a_out) :
       /\ a_out[x].url = a_page.rows[i].href
       /\ a_out[x].title = a_page.rows[i].title
       /\ a_out[x].date = parse_news_date(a_page.rows[i].date_text)

\* C9: the Google News adapter excludes every article whose normalized date
\* is older than now - days_back and retains every other article it looks
\* at (stated for the pubDates that lie on the time line of now, the naive
\* ones).
C9_GoogleAgeFilter ==
    (call = "_get_google_news" /\ a_done /\ a_page.status = "ok") =>
        \A i \in GoogleLooksAt :
           LET date == parse_news_date(a_page.rows[i].date_text) IN
           ~date.aware =>
              (GoogleEmitted(i) <=> ~(date.t < Now - days_back * MinutesPerDay))

\* the words each parser looks for after its formats
NewsWords == {"hour", "day", "minute"}
DateWords == {"today", "tomorrow", "yesterday"}

MatchesNoFormat(text, formats) ==
    \A i \in 1..Len(formats) : text.fmt # formats[i]

\* C10: given a text that matches no absolute format and no relative phrase
\* each date parser returns exactly its fallback (the current time for news,
\* today for earnings), never None.
C10_ParsersFallBack ==
    p_done =>
        /\ (call = "_parse_news_date" /\ MatchesNoFormat(p_text, news_formats)
               /\ p_text.words \cap NewsWords = {})
              => p_out = <<Naive(Now)>>
        /\ (call = "_parse_finviz_date" /\ MatchesNoFormat(p_text, finviz_formats))
              => p_out = <<Today>>
        /\ (call = "_parse_date" /\ MatchesNoFormat(p_text, date_formats)
               /\ p_text.words \cap DateWords = {})
              => p_out = <<Today>>


\* the offset in minutes of the relative phrase a text is, <<>> when the
\* text is none of the documented phrases
PhraseOffset(text) ==
    IF text.fmt # "none" \/ text.empty THEN <<>>
    ELSE IF "today" \in text.words THEN <<0>>
    ELSE IF "tomorrow" \in text.words THEN <<MinutesPerDay>>
    ELSE IF "yesterday" \in text.words THEN <<0 - MinutesPerDay>>
    ELSE IF text.num = <<>> THEN <<>>
    ELSE IF "hour" \in text.words THEN <<0 - text.num[1] * 60>>
    ELSE IF "day" \in text.words THEN <<0 - text.num[1] * MinutesPerDay>>
    ELSE IF "minute" \in text.words THEN <<0 - text.num[1]>>
    ELSE <<>>

\* C11: when no absolute format matches, "today", "tomorrow", "yesterday"
\* and "<N> hour(s)/day(s)/minute(s) ago" are resolved as offsets from the
\* current time, by the news parser (a timestamp) as by the earnings parser
\* (the calendar date of that instant).
C11_RelativePhrases ==
    (p_done /\ PhraseOffset(p_text) # <<>>) =>
        /\ call = "_parse_news_date"
              => p_out = <<Naive(Now + PhraseOffset(p_text)[1])>>
        /\ call = "_parse_date"
              => p_out = <<(Now + PhraseOffset(p_text)[1]) \div MinutesPerDay>>


\* the number of _parse_article calls made for ticker t by a source
ParseCount(t, source) ==
    Cardinality({k \in 1..Len(n_parse_log) :
                    n_parse_log[k].tick = t /\ n_parse_log[k].call.source = source})

\* the adapter of the b-th invocation of a get_news_for_tickers call
InvokedSource(b) == news_sources[((b - 1) % Len(news_sources)) + 1]

\* C12: one get_news_for_tickers call over N tickers makes at most
\* N x 3 x 5 content-extraction calls, at most 5 per ticker from Yahoo, 5
\* from MarketWatch and 3 from Google News, and each adapter emits at most
\* its cap of articles per ticker.
C12_BoundedExtraction ==
    call = "get_news_for_tickers" =>
        /\ Len(n_parse_log) <= Len(tickers) * 3 * 5
        /\ \A t \in 1..Len(tickers) :
              /\ ParseCount(t, "Yahoo Finance") <= 5
              /\ ParseCount(t, "MarketWatch") <= 5
              /\ ParseCount(t, "Google News") <= 3
        /\ \A b \in 1..Len(n_batches) :
              Len(n_batches[b]) <= (IF InvokedSource(b) = "_get_google_news" THEN 3 ELSE 5)

\* a finished call in which, for one ticker, every site served more items
\* than its adapter's cap and the caps were reached
C12_Witness ==
    /\ call = "get_news_for_tickers"
    /\ n_pc = "done"
    /\ \E t \in 1..Len(tickers) :
          /\ ParseCount(t, "Yahoo Finance") = 5
          /\ ParseCount(t, "MarketWatch") = 5
          /\ ParseCount(t, "Google News") = 3


\* the positions of the concatenated batches that hold the article of a
\* _parse_article call that failed: same source, url, title and date, with
\* empty summary and full_text
FailedArticleAt(c) ==
    LET produced == Flatten(n_batches)
    IN  {i \in 1..Len(produced) :
            /\ produced[i].source = c.source
            /\ produced[i].url = c.url
            /\ produced[i].title = c.title
            /\ produced[i].date = c.date
            /\ produced[i].summary = ""
            /\ produced[i].full_text = ""}

TickerBatches(t) ==
    SubSeq(n_batches, Len(news_sources) * (t - 1) + 1, Len(news_sources) * t)

\* every adapter failed or found nothing for the t-th ticker
TickerFailed(t) == \A b \in 1..Len(TickerBatches(t)) : TickerBatches(t)[b] = <<>>

\* the adapters invoked for the t-th ticker, in order
TickerCalls(t) ==
    SelectSeq(n_events, LAMBDA e : e.kind = "call" /\ e.ticker = t)

\* C14: tickers are processed independently: when the processing of one
\* ticker fails, every other ticker of the list, before and after it, is
\* still processed and the articles collected for it are in the returned
\* table: each url has its row, and the row is the article itself when no
\* article collected earlier has the same url.
C14_TickersIndependent ==
    NewsReturned =>
        \A t \in 1..Len(tickers) :
           TickerFailed(t) =>
              \A u \in (1..Len(tickers)) \ {t} :
                 /\ Len(TickerCalls(u)) = Len(news_sources)
                 /\ LET produced == Flatten(n_batches)
                        keys     == NewsKeys(produced)
                        before   == Len(Flatten(SubSeq(n_batches, 1,
                                                       Len(news_sources) * (u - 1))))
                        mine     == Len(Flatten(TickerBatches(u)))
                    IN  \A i \in (before + 1)..(before + mine) :
                           /\ \E r \in 1..Len(n_table) : n_table[r].url = produced[i].url
                           /\ FirstWith(keys, i) = i =>
                                 \E r \in 1..Len(n_table) :
                                    /\ n_table[r].ticker = tickers[u]
                                    /\ n_table[r].url = produced[i].url
                                    /\ n_table[r].title = produced[i].title
                                    /\ n_table[r].date = produced[i].date
                                    /\ n_table[r].source = produced[i].source

\* a returned table holding the articles of the first ticker although every
\* adapter failed for the second one, and one holding those of the second
\* ticker although every adapter failed for the first one
C14_WitnessAfter ==
    /\ NewsReturned
    /\ Len(tickers) = 2
    /\ TickerFailed(2)
    /\ ~TickerFailed(1)
    /\ Len(n_table) >= 2

C14_Witness ==
    /\ NewsReturned
    /\ Len(tickers) = 2
    /\ tickers[1] # tickers[2]
    /\ TickerFailed(1)
    /\ ~TickerFailed(2)
    /\ \E r \in 1..Len(n_table) : n_table[r].ticker = tickers[2]


\* the item raises inside the try of its loop iteration: an element is
\* missing, or the age of an aware date is asked for
GoogleItemRaises(i) ==
    \/ ~a_page.rows[i].link
    \/ parse_news_date(a_page.rows[i].date_text).aware

\* the items among the first three that neither raise nor are too old
GoogleGood ==
    {i \in 1..Len(Limit(a_page.rows, GoogleNewsCap)) :
        /\ ~GoogleItemRaises(i)
        /\ ~GoogleTooOld(parse_news_date(a_page.rows[i].date_text), days_back)}

\* the date header in force at row i of the Finviz page, 0 when there is none
FinvizHeaderOf(i) ==
    LET hs == {j \in 1..(i - 1) : a_page.rows[j].ncells = 1 /\ a_page.rows[j].colspan}
    IN  IF hs = {} THEN 0 ELSE CHOOSE j \in hs : \A k \in hs : k <= j

\* the rows of the Finviz page that hold a record of the window
FinvizGood ==
    {i \in 1..Len(a_page.rows) :
        /\ a_page.rows[i].ncells >= 3
        /\ a_page.rows[i].link
        /\ a_page.rows[i].ticker # ""
        /\ FinvizHeaderOf(i) # 0
        /\ FinvizDateOk(parse_finviz_date(a_page.rows[FinvizHeaderOf(i)].text),
                        days_ahead)}

C15_WitnessNoTable ==
    /\ call = "_scrape_finviz_earnings"
    /\ a_done
    /\ a_page.status = "no_table"
    /\ a_out = <<>>

\* the Finviz row after a row that does not fit is returned
C15_WitnessFinviz ==
    /\ call = "_scrape_finviz_earnings"
    /\ a_done
    /\ Len(a_page.rows) = 3
    /\ a_page.rows[2].ncells >= 3
    /\ FinvizGood = {3}
    /\ Len(a_out) = 1


\* the adapters invoked so far by get_earnings_calendar, in order
EarningsCalls == SelectSeq(e_events, LAMBDA e : e # "sleep")

\* the adapters invoked so far by get_news_for_tickers, in order
NewsCalls == SelectSeq(n_events, LAMBDA e : e.kind = "call")

\* C16: within one aggregation call each source gets exactly one attempt:
\* get_earnings_calendar invokes the adapters Finviz, Investing.com, Yahoo
\* Finance, MarketWatch once each in that order, get_news_for_tickers invokes
\* each news adapter once for each ticker of the list, and no adapter is
\* invoked again after a failure or an empty result.
C16_OneAttemptPerSource ==
    /\ call = "get_earnings_calendar" =>
          /\ EarningsCalls = SubSeq(sources, 1, Len(EarningsCalls))
          /\ Len(e_batches) = Len(EarningsCalls)
          /\ e_pc = "done" => EarningsCalls = sources
    /\ sources = <<"_scrape_finviz_earnings", "_scrape_investing_earnings",
                   "_scrape_yahoo_finance_api", "_scrape_marketwatch_earnings">>
    /\ call = "get_news_for_tickers" =>
          /\ \A k \in 1..Len(NewsCalls) :
                NewsCalls[k] = NewsCall(((k - 1) \div Len(news_sources)) + 1,
                                        news_sources[((k - 1) % Len(news_sources)) + 1])
          /\ Len(n_batches) = Len(NewsCalls)
          /\ n_pc = "done" => Len(NewsCalls) = Len(news_sources) * Len(tickers)

\* get_earnings_calendar is done, two adapters returned nothing, and each
\* adapter was invoked once
C16_Witness ==
    /\ call = "get_earnings_calendar"
    /\ e_pc = "done"
    /\ e_batches[1] = <<>>
    /\ e_batches[3] = <<>>
    /\ e_batches[4] # <<>>
    /\ EarningsCalls = sources

\* get_news_for_tickers is done for two tickers, the adapters of the first
\* one returned nothing, and six invocations took place
C16_WitnessNews ==
    /\ call = "get_news_for_tickers"
    /\ n_pc = "done"
    /\ Len(tickers) = 2
    /\ TickerFailed(1)
    /\ Len(NewsCalls) = 6


\* C17: within one aggregator call a rate-limiting pause occurs between every
\* two consecutive adapter invocations: in get_earnings_calendar between
\* successive source adapters whatever the earlier one returned, and in
\* get_news_for_tickers between successive news-adapter invocations, those
\* of the same ticker included.
C17_PauseBetweenAdapters ==
    /\ \A k \in 1..(Len(e_events) - 1) :
          ~(e_events[k] # "sleep" /\ e_events[k + 1] # "sleep")
    /\ \A k \in 1..(Len(n_events) - 1) :
          ~(n_events[k].kind = "call" /\ n_events[k + 1].kind = "call")


\* the lifetimes the claim gives: one hour and thirty minutes, in seconds
ClaimedTtl(fn) == IF fn = "load_earnings_data" THEN 60 * 60 ELSE 30 * 60

\* the calls before the k-th one made to the same loader with the same
\* arguments, and those among them that ran the aggregation
SameBefore(k) ==
    {j \in 1..(k - 1) : loads[j].fn = loads[k].fn /\ loads[j].key = loads[k].key}

AggregatedBefore(k) == {j \in SameBefore(k) : loads[j].invoked > 0}

Latest(S) == CHOOSE j \in S : \A i \in S : i <= j

\* the number of adapter invocations of one aggregation
AdaptersOf(l) ==
    IF l.fn = "load_earnings_data" THEN Len(sources)
    ELSE Len(news_sources) * Len(l.key)

\* C18 as stated: a load_earnings_data call within 3600 s of a previous one
\* (load_news_data with the same ticker list: within 1800 s) returns the
\* same table without invoking any adapter, and the first call after expiry
\* runs a fresh aggregation.
C18_CachedSincePreviousCall ==
    \A k \in 1..Len(loads) :
       SameBefore(k) # {} =>
          LET j == Latest(SameBefore(k)) IN
          loads[k].at - loads[j].at < ClaimedTtl(loads[k].fn) =>
             /\ loads[k].invoked = 0
             /\ loads[k].table = loads[j].table

\* C18, amended: a call made less than 3600 s (news: 1800 s, same ticker
\* list) after the call that ran the aggregation whose result is cached
\* returns that result without invoking any adapter, and a call made when
\* there is no such aggregation or more than the ttl after it runs a fresh
\* aggregation, which invokes every adapter.
C18_CachedSinceAggregation ==
    \A k \in 1..Len(loads) :
       IF AggregatedBefore(k) = {}
       THEN loads[k].invoked = AdaptersOf(loads[k])
       ELSE LET j == Latest(AggregatedBefore(k))
                age == loads[k].at - loads[j].at
            IN  /\ age < ClaimedTtl(loads[k].fn) =>
                      /\ loads[k].invoked = 0
                      /\ loads[k].table = loads[j].table
                /\ age > ClaimedTtl(loads[k].fn) =>
                      loads[k].invoked = AdaptersOf(loads[k])

\* the second call is served from the cache, and the third one, made after
\* the expiry, runs an aggregation that returns another table
C18_Witness ==
    /\ call = "load_earnings_data"
    /\ Len(loads) = 3
    /\ loads[1].invoked > 0
    /\ loads[2].invoked = 0
    /\ loads[2].table = loads[1].table
    /\ loads[3].invoked > 0
    /\ loads[3].at - loads[1].at > ClaimedTtl("load_earnings_data")
    /\ loads[3].table # loads[1].table

\* the same for the news of one ticker list, with a call for another list in
\* between
C18_WitnessNews ==
    /\ call = "load_news_data"
    /\ Len(loads) = 3
    /\ loads[1].key = loads[3].key
    /\ loads[2].key # loads[1].key
    /\ loads[3].invoked = 0
    /\ loads[3].table = loads[1].table
    /\ loads[3].table # <<>>


\* C19: in the Yahoo Finance earnings adapter a row whose time value is
\* missing or empty yields a record with time "N/A": no record the adapter
\* emits has an empty time.
C19_YahooTimeSentinel ==
    (call = "get_earnings_calendar" /\ Len(e_batches) >= 3) =>
        \A x \in 1..Len(e_batches[3]) : e_batches[3][x].time # ""

\* the ticker texts of the pages that are not uppercase symbols, with the
\* uppercase symbol each stands for
UpperOf(t) == IF t = "aapl" THEN "AAPL" ELSE t

\* C20: every row of the table returned by get_earnings_calendar has a
\* ticker that is an uppercase symbol, so two scraped rows for the same date
\* whose tickers differ only in letter case collapse to one row.
C20_TickersUppercase ==
    EarningsReturned =>
        /\ \A r \in 1..Len(e_table) : e_table[r].ticker = UpperOf(e_table[r].ticker)
        /\ \A r, s \in 1..Len(e_table) :
              (/\ e_table[r].date = e_table[s].date
               /\ UpperOf(e_table[r].ticker) = UpperOf(e_table[s].ticker)) => r = s


\* the adapters that cannot determine a per-row date
Dateless ==
    {"_scrape_investing_earnings", "_scrape_yahoo_finance_api",
     "_scrape_marketwatch_earnings"}

\* the data rows of the page from which the adapter can take a ticker (and,
\* where it asks for one, a company)
DatelessUsable ==
    {i \in 2..Len(a_page.rows) :
        LET row == a_page.rows[i] IN
        CASE call = "_scrape_yahoo_finance_api" ->
                 row.ncells >= 4 /\ row.link /\ row.ticker # ""
          [] call = "_scrape_investing_earnings" ->
                 row.ncells >= 4 /\ row.link /\ InvestingTicker(row) # ""
                 /\ row.company # ""
          [] call = "_scrape_marketwatch_earnings" ->
                 /\ row.ncells >= 3
                 /\ (IF row.link THEN row.link_text ELSE row.cell0) # ""
                 /\ row.company # ""
          [] OTHER -> FALSE}

\* C21: the records of the adapters that cannot determine a per-row date
\* (Investing.com, MarketWatch, Yahoo Finance) carry date = today and none
\* is dropped on date grounds, whatever days_ahead is, 0 and negative values
\* included: each usable row of the page gives a record.
C21_DatelessRowsKept ==
    (call \in Dateless /\ a_done) =>
        /\ \A x \in 1..Len(a_out) : a_out[x].date = Today
        /\ Len(a_out) = Cardinality(DatelessUsable)


\* the header has one of the year-less formats / one of the formats with a
\* year
YearLess(text) == text.fmt \in {"%A, %B %d", "%B %d"}
WithYear(text) == text.fmt \in {"%m/%d/%Y", "%Y-%m-%d"}

\* C22: _parse_finviz_date resolves a year-less date header ("February
\* 5th", "Monday, February 5th") to that month and day in the current year,
\* and a header that carries an explicit year keeps its own year.
C22_YearLessHeaders ==
    (call = "_parse_finviz_date" /\ p_done) =>
        /\ (YearLess(p_text) /\ ValidYmd(CurrentYear, p_text.m, p_text.d)) =>
              p_out = <<Ymd(CurrentYear, p_text.m, p_text.d)>>
        /\ (WithYear(p_text) /\ ValidYmd(p_text.y, p_text.m, p_text.d)) =>
              p_out = <<Ymd(p_text.y, p_text.m, p_text.d)>>


\* the event has the given start, and ends one hour later on the same date
IcalFromTo(event, date, start) ==
    /\ event.dtstart = [date |-> date, minute |-> start]
    /\ event.dtend = [date |-> date, minute |-> start + 60]

\* C23: create_ical_event produces a VEVENT whose DTSTART/DTEND are
\* 09:00-10:00 UTC by default, 13:00-14:00 UTC whenever the row's time
\* indicates a pre-market session and 21:00-22:00 UTC whenever it indicates
\* after-hours, on the row's date, DTEND always one hour after DTSTART.  What
\* a time text indicates is what get_earnings_time_category says of it.
C23_IcalSessionTimes ==
    (call = "create_ical_event" /\ u_done) =>
        LET category == get_earnings_time_category(u_in.time) IN
        /\ category = "Pre-market" => IcalFromTo(u_out[1], u_in.date, 13 * 60)
        /\ category = "After-hours" => IcalFromTo(u_out[1], u_in.date, 21 * 60)
        /\ category \notin {"Pre-market", "After-hours"} =>
              IcalFromTo(u_out[1], u_in.date, 9 * 60)


\* C24: the earnings aggregator orchestrates five earnings adapters and the
\* news aggregator three news adapters: one get_earnings_calendar call
\* invokes five distinct source adapters and one _get_ticker_news call
\* invokes three.
C24_FiveAndThreeAdapters ==
    /\ (call = "get_earnings_calendar" /\ e_pc = "done") =>
          Cardinality(Range(EarningsCalls)) = 5
    /\ (call = "get_news_for_tickers" /\ n_pc = "done") =>
          \A t \in 1..Len(tickers) :
             Cardinality({TickerCalls(t)[k].name : k \in 1..Len(TickerCalls(t))}) = 3


\* C24, amended: one get_earnings_calendar call invokes four distinct source
\* adapters (Finviz, Investing.com, Yahoo Finance, MarketWatch) and one
\* _get_ticker_news call invokes three distinct news adapters.
C24_FourAndThreeAdapters ==
    /\ (call = "get_earnings_calendar" /\ e_pc = "done") =>
          /\ Cardinality(Range(EarningsCalls)) = 4
          /\ Range(EarningsCalls) =
                {"_scrape_finviz_earnings", "_scrape_investing_earnings",
                 "_scrape_yahoo_finance_api", "_scrape_marketwatch_earnings"}
    /\ (call = "get_news_for_tickers" /\ n_pc = "done") =>
          \A t \in 1..Len(tickers) :
             Cardinality({TickerCalls(t)[k].name : k \in 1..Len(TickerCalls(t))}) = 3

\* a get_earnings_calendar call that is done, after four invocations of
\* which the last returned records
C24_Witness ==
    /\ call = "get_earnings_calendar"
    /\ e_pc = "done"
    /\ Len(EarningsCalls) = 4
    /\ Cardinality(Range(EarningsCalls)) = 4
    /\ e_batches[4] # <<>>

\* a get_news_for_tickers call that is done for one ticker, after three
\* invocations
C24_WitnessNews ==
    /\ call = "get_news_for_tickers"
    /\ n_pc = "done"
    /\ Len(tickers) = 1
    /\ Len(NewsCalls) = 3
    /\ n_batches[3] # <<>>


\* the x-th smallest element of a set of row numbers
NthOf(S, x) == CHOOSE i \in S : Cardinality({j \in S : j <= i}) = x

\* the ticker rows of the Finviz page that stand before the first date header
FinvizBeforeFirstHeader ==
    {i \in 1..Len(a_page.rows) :
        /\ a_page.rows[i].ncells >= 3
        /\ a_page.rows[i].link
        /\ a_page.rows[i].ticker # ""
        /\ FinvizHeaderOf(i) = 0}

\* C25: the Finviz adapter scans the table rows in order keeping a current
\* date: every emitted record carries the date parsed from the nearest
\* preceding date-header row, ticker rows that precede the first date header
\* are not emitted, and when no table is found the adapter returns an empty
\* list.
C25_FinvizCurrentDate ==
    (call = "_scrape_finviz_earnings" /\ a_done) =>
        /\ a_page.status = "no_table" => a_out = <<>>
        /\ a_page.status = "ok" =>
              /\ Len(a_out) = Cardinality(FinvizGood)
              /\ \A x \in 1..Len(a_out) :
                    LET i == NthOf(FinvizGood, x) IN
                    /\ a_out[x].ticker = a_page.rows[i].ticker
                    /\ a_out[x].date =
                          parse_finviz_date(a_page.rows[FinvizHeaderOf(i)].text)
              /\ FinvizBeforeFirstHeader \cap FinvizGood = {}

\* a ticker row after two date headers of different dates is returned with
\* the date of the second one
C25_Witness ==
    /\ call = "_scrape_finviz_earnings"
    /\ a_done
    /\ Len(a_page.rows) = 3
    /\ FinvizHeaderOf(3) = 2
    /\ FinvizHeaderOf(2) = 1
    /\ parse_finviz_date(a_page.rows[1].text) # parse_finviz_date(a_page.rows[2].text)
    /\ Len(a_out) = 1
    /\ a_out[1].date = parse_finviz_date(a_page.rows[2].text)

\* a ticker row before the first date header is left out and the ticker row
\* after the header is returned
C25_WitnessBeforeHeader ==
    /\ call = "_scrape_finviz_earnings"
    /\ a_done
    /\ FinvizBeforeFirstHeader = {1}
    /\ FinvizGood = {3}
    /\ Len(a_out) = 1


\* C26: clean_ticker is idempotent, clean_ticker(clean_ticker(t)) =
\* clean_ticker(t) for every input string t, so that validate_ticker applied
\* to an already cleaned ticker judges the same symbol; the result is
\* uppercase, has no dots and ends with none of the suffixes -USD, -US, .US,
\* .TO, .L.
C26_CleanTickerIdempotent ==
    /\ (call = "clean_ticker" /\ u_done) =>
          LET cleaned == u_out[1] IN
          /\ clean_ticker(cleaned) = cleaned
          /\ validate_ticker(cleaned) = (Len(cleaned) \in 1..5 /\ isalpha(cleaned))
          /\ upper(cleaned) = cleaned
          /\ ~Contains(cleaned, <<".">>)
          /\ \A i \in 1..Len(suffixes) : ~EndsWith(cleaned, suffixes[i])
    /\ (call = "validate_ticker" /\ u_done) =>
          u_out[1] = validate_ticker(clean_ticker(u_in))


\* C27: every row of the table returned by get_news_for_tickers has a
\* non-empty title and a non-empty url, whichever adapter (Yahoo, MarketWatch
\* or Google News) produced it.
C27_NewsRowsHaveTitleAndUrl ==
    NewsReturned =>
        \A r \in 1..Len(n_table) : n_table[r].title # "" /\ n_table[r].url # ""

====
